---- MODULE Spec2Model ----
(***************************************************************************)
(* PositionListNode (modules/position_list_node.py): the linked list of    *)
(* positions of a chess puzzle, grown by generate(depth) with the help of  *)
(* a UCI engine and read by move_list, category and is_complete.      *)
(*                                                                         *)
(* The chess board, the engine, the material utilities and the ambiguity   *)
(* classifier are collaborators outside the file.  What they answer is     *)
(* drawn from small sets at the place where the code asks:                 *)
(*   - a position is the sequence of the moves pushed on the board; a move *)
(*     is the number of the legal move in the position it is played in;    *)
(*   - position.is_game_over() is drawn when a link is constructed and     *)
(*     kept in the link (field is_game_over);                              *)
(*   - position.legal_moves.count() is drawn when generate first asks for  *)
(*     it (line 57) and kept in legal_moves;                               *)
(*   - the engine's answers are drawn in evaluate_best and                 *)
(*     evaluate_candidate_moves;                                           *)
(*   - material_difference, material_count and the mate field of a link's  *)
(*     evaluation are read by is_complete only: they are the `env`         *)
(*     argument of is_complete.                                             *)
(* The search depth and the strict flag are passed along unchanged and     *)
(* decide nothing in the file; they are left out of the state.  Material   *)
(* is counted in tenths of a pawn, so that 0.1, 0.2 and 2 are integers.    *)
(***************************************************************************)
EXTENDS Integers, Sequences, FiniteSets, TLC

\* ------------------------------------------------------------------ bounds

\* The longest chain: the game is over in the position of link MaxLinks.
MaxLinks == 4

\* The largest number of legal moves of a position.
MaxLegal == 4

\* ------------------------------------------------------- program constants

\* None: an absent next_position (an index) or an absent bestmove (a move).
None == 0

\* min(3, ...) of evaluate_candidate_moves.
MaxMultiPV == 3

\* material_difference > 0.2, in tenths.
MinAdvantage == 2

\* final_material_change > 0.1, in tenths.
MinChange == 1

\* initial_material_diff < 2, in tenths.
Decisive == 20

\* num_pieces > 6.
MinPieces == 6

\* The scores of two moves closer than this are comparably good.
NegligibleGap == 50

VARIABLES
    links,        \* the PositionListNode objects, in construction order
    legal_moves,  \* legal_moves[i]: position.legal_moves.count() of link i
    pc,           \* where the run is: idle, a statement of generate, done, read
    cur,          \* the link generate is running on, or ran on last
    multipv,      \* the engine's MultiPV option
    searches,     \* the engine.go calls so far: who asked, under which MultiPV
    ret           \* the last value returned to the owner of the chain

vars == <<links, legal_moves, pc, cur, multipv, searches, ret>>

Min(a, b) == IF a < b THEN a ELSE b

\* ------------------------------------------------------------ the link

\* __init__: the link for (position, initial_move).  over is what
\* is_game_over() answers for the new position.
PositionListNode(position, initial_move, player_turn, over) ==
    [ initial_position |-> position,
      initial_move     |-> initial_move,
      position         |-> Append(position, initial_move),
      is_game_over     |-> over,
      player_turn      |-> player_turn,
      best_move        |-> [is_none |-> TRUE, bestmove |-> None],
      evaluation       |-> [is_none |-> TRUE],
      next_position    |-> None,
      candidate_moves  |-> <<>> ]

\* CandidateMove(move_uci, move_san, evaluation).
CandidateMove(move, evaluation) ==
    [move_uci |-> move, move_san |-> move, evaluation |-> evaluation]

\* modules.candidate_moves.ambiguous: at least two candidate moves, the best
\* two within a negligible gap; never ambiguous on fewer than two scores.
candidate_moves_ambiguous(scores) ==
    /\ Len(scores) >= 2
    /\ scores[1] - scores[2] < NegligibleGap

\* ambiguous(self).
ambiguous(i) ==
    candidate_moves_ambiguous(
        [k \in 1..Len(links[i].candidate_moves) |->
            links[i].candidate_moves[k].evaluation])

\* A game_over that forgets the position after the best move.
GameOverOfThisPosition(i) == links[i].is_game_over

\* game_over(self): reads self.next_position.position.
GameOverRaises(i) == links[i].next_position = None

game_over(i) ==
    links[i].is_game_over \/ links[links[i].next_position].is_game_over

\* ------------------------------------------------------ what the world answers

\* is_game_over() of a new position: the game is over at ply MaxLinks.
GameOverAnswers(n) == IF n >= MaxLinks THEN {TRUE} ELSE BOOLEAN

\* legal_moves.count(): no legal move means the game is over.
LegalCountAnswers(i) ==
    IF i >= MaxLinks THEN {0}
    ELSE IF links[i].is_game_over THEN 0..MaxLegal ELSE 1..MaxLegal

\* bestmove of engine.go in a position of n legal moves: none, or a legal
\* move.  Which legal move it names decides nothing in the file: it is the
\* last one, so that the moves of a chain differ with the legal counts.
BestMoveAnswers(n) == {None, n}

\* The scores of a MultiPV search, best first: the runners-up are level with
\* the best move or clearly behind it.
MultiPVScores(k) ==
    { [j \in 1..k |-> IF j = 1 THEN 100 ELSE s] : s \in {100, 0} }

\* --------------------------------------------------------------- generate

Init ==
    /\ \E player_turn \in BOOLEAN, over \in GameOverAnswers(1) :
          links = << PositionListNode(<<>>, 1, player_turn, over) >>
    /\ legal_moves = <<>>
    /\ pc = "idle"
    /\ cur = None
    /\ multipv = 1
    /\ searches = <<>>
    /\ ret = [op |-> "none"]

\* The owner calls generate(depth) on the root, once.
GenerateRoot ==
    /\ pc = "idle"
    /\ cur' = 1
    /\ pc' = "generate"
    /\ UNCHANGED <<links, legal_moves, multipv, searches, ret>>

\* generate, lines 56-59: no legal moves, not going deeper.
generate ==
    /\ pc = "generate"
    /\ \E n \in LegalCountAnswers(cur) :
          /\ legal_moves' = Append(legal_moves, n)
          /\ pc' = IF n = 0 THEN "done" ELSE "evaluate_best"
    /\ UNCHANGED <<links, cur, multipv, searches, ret>>

\* A next link that keeps the side of its predecessor.
NextLinkSameTurn(i, bm, over) ==
    PositionListNode(links[i].position, bm, links[i].player_turn, over)

\* evaluate_best, lines 103-108: the link for (self.position, bestmove).
NextLink(i, bm, over) ==
    PositionListNode(links[i].position, bm, ~links[i].player_turn, over)

\* evaluate_best, and lines 60-63 of generate.
evaluate_best ==
    /\ pc = "evaluate_best"
    /\ searches' = Append(searches, [by |-> "evaluate_best", link |-> cur,
                                     multipv |-> multipv])
    /\ \E bm \in BestMoveAnswers(legal_moves[cur]) :
          IF bm # None
          THEN \E over \in GameOverAnswers(Len(links) + 1) :
                 /\ links' = Append(
                       [links EXCEPT
                          ![cur].best_move = [is_none |-> FALSE, bestmove |-> bm],
                          ![cur].evaluation = [is_none |-> FALSE],
                          ![cur].next_position = Len(links) + 1],
                       NextLink(cur, bm, over))
                 /\ pc' = "evaluate_candidate_moves"
          ELSE /\ links' = [links EXCEPT
                          ![cur].best_move = [is_none |-> FALSE, bestmove |-> None]]
               /\ pc' = "done"
    /\ UNCHANGED <<legal_moves, cur, multipv, ret>>

\* A MultiPV that is not capped at 3.
MultiPVUncapped(i) == legal_moves[i]

\* multipv = min(3, self.position.legal_moves.count()).
MultiPVFor(i) == Min(MaxMultiPV, legal_moves[i])

\* evaluate_candidate_moves, lines 117-121: raise MultiPV.
evaluate_candidate_moves ==
    /\ pc = "evaluate_candidate_moves"
    /\ multipv' = MultiPVFor(cur)
    /\ pc' = "multipv_search"
    /\ UNCHANGED <<links, legal_moves, cur, searches, ret>>

\* evaluate_candidate_moves, lines 122-131: search, one candidate per line.
evaluate_candidate_moves_go ==
    /\ pc = "multipv_search"
    /\ searches' = Append(searches, [by |-> "evaluate_candidate_moves",
                                     link |-> cur, multipv |-> multipv])
    /\ \E scores \in MultiPVScores(MultiPVFor(cur)) :
          links' = [links EXCEPT ![cur].candidate_moves =
                       @ \o [j \in 1..MultiPVFor(cur) |-> CandidateMove(j, scores[j])]]
    /\ pc' = "restore_multipv"
    /\ UNCHANGED <<legal_moves, cur, multipv, ret>>

\* An evaluate_candidate_moves that leaves MultiPV raised.
RestoreMultiPVForgotten ==
    /\ pc = "restore_multipv"
    /\ pc' = "recurse"
    /\ UNCHANGED <<links, legal_moves, cur, multipv, searches, ret>>

\* evaluate_candidate_moves, line 132.
evaluate_candidate_moves_restore ==
    /\ pc = "restore_multipv"
    /\ multipv' = 1
    /\ pc' = "recurse"
    /\ UNCHANGED <<links, legal_moves, cur, searches, ret>>

\* The condition of line 65 reaches game_over() (has_best is True there).
ReachesGameOver(i) == links[i].player_turn /\ ~ambiguous(i)

\* A line 65 that goes deeper from an ambiguous link.
GoingDeeperDespiteAmbiguity(i) ==
    \/ ~links[i].player_turn
    \/ ~game_over(i)

\* Line 65: not self.player_turn or (has_best and not ambiguous and not game_over).
GoingDeeper(i) ==
    \/ ~links[i].player_turn
    \/ (~ambiguous(i) /\ ~game_over(i))

\* generate, lines 65-74.
Recurse ==
    /\ pc = "recurse"
    /\ IF ReachesGameOver(cur) /\ GameOverRaises(cur)
       THEN /\ pc' = "raised"
            /\ UNCHANGED cur
       ELSE IF GoingDeeper(cur)
       THEN /\ cur' = links[cur].next_position
            /\ pc' = "generate"
       ELSE /\ pc' = "done"
            /\ UNCHANGED cur
    /\ UNCHANGED <<links, legal_moves, multipv, searches, ret>>

\* ------------------------------------------------------------ the readers

\* move.uci(): the coordinates that name the move.
Uci(move) == [uci |-> move]

Returned(value) == [raised |-> FALSE, value |-> value]

\* 'NoneType' object has no attribute ...
AttributeError == [raised |-> TRUE, value |-> "AttributeError"]

\* move_list(self), lines 36-42.
RECURSIVE move_list(_)
move_list(i) ==
    LET self == links[i]
        nxt  == self.next_position
    IN  IF nxt = None \/ ambiguous(nxt) \/ links[nxt].is_game_over
        THEN IF ~self.best_move.is_none
             THEN IF self.best_move.bestmove = None
                  THEN AttributeError
                  ELSE Returned(<< Uci(self.best_move.bestmove) >>)
             ELSE Returned(<<>>)
        ELSE IF self.best_move.is_none \/ self.best_move.bestmove = None
             THEN AttributeError
             ELSE LET rest == move_list(nxt)
                  IN  IF rest.raised THEN rest
                      ELSE Returned(<< Uci(self.best_move.bestmove) >> \o rest.value)

\* A category that looks at its own link instead of the tail.
CategoryOfThisLink(i) ==
    IF links[i].is_game_over THEN "Mate" ELSE "Material"

\* category(self), lines 45-50.
RECURSIVE category(_)
category(i) ==
    IF links[i].next_position # None
    THEN category(links[i].next_position)
    ELSE IF links[i].is_game_over THEN "Mate" ELSE "Material"

\* An is_complete that steps over the opponent's reply: two links at a time.
RECURSIVE CompletenessLinkTwoAtATime(_, _)
CompletenessLinkTwoAtATime(i, cat) ==
    LET nxt == links[i].next_position
    IN  IF nxt # None /\ cat = "Mate" /\ ~ambiguous(i)
        THEN CompletenessLinkTwoAtATime(nxt, cat)
        ELSE IF nxt # None /\ cat = "Material" /\ links[nxt].next_position # None
        THEN CompletenessLinkTwoAtATime(links[nxt].next_position, cat)
        ELSE i

\* is_complete, lines 138-142: the link the recursion stops at.
RECURSIVE CompletenessLink(_, _)
CompletenessLink(i, cat) ==
    LET nxt == links[i].next_position
    IN  IF nxt # None /\ cat = "Mate" /\ ~ambiguous(i)
        THEN CompletenessLink(nxt, cat)
        ELSE IF nxt # None /\ cat = "Material" /\ links[nxt].next_position # None
        THEN CompletenessLink(nxt, cat)
        ELSE i

\* An is_complete that forgets the check of the starting material difference.
CompleteAtWithoutStartCheck(j, cat, white_to_move, initial_material_diff, env) ==
    LET diff   == env.material_difference
        change == IF diff >= initial_material_diff
                  THEN diff - initial_material_diff
                  ELSE initial_material_diff - diff
        before == IF white_to_move
                  THEN diff > MinAdvantage /\ change > MinChange
                  ELSE diff < -MinAdvantage /\ change > MinChange
    IN  IF cat = "Material"
        THEN IF ~before THEN Returned(FALSE)
             ELSE IF links[j].evaluation.is_none THEN AttributeError
             ELSE Returned(env.mate_is_none /\ env.material_count > MinPieces)
        ELSE Returned(links[j].is_game_over)

\* is_complete, lines 145-169, at the link the recursion stopped at.  env is
\* what material_difference, material_count and evaluation.mate are there;
\* the conjunctions stop at their first false condition.
CompleteAt(j, cat, white_to_move, initial_material_diff, env) ==
    LET diff   == env.material_difference
        change == IF diff >= initial_material_diff
                  THEN diff - initial_material_diff
                  ELSE initial_material_diff - diff
        before == IF white_to_move
                  THEN /\ diff > MinAdvantage
                       /\ change > MinChange
                       /\ initial_material_diff < Decisive
                  ELSE /\ diff < -MinAdvantage
                       /\ change > MinChange
                       /\ initial_material_diff > -Decisive
    IN  IF cat = "Material"
        THEN IF ~before THEN Returned(FALSE)
             ELSE IF links[j].evaluation.is_none THEN AttributeError
             ELSE Returned(env.mate_is_none /\ env.material_count > MinPieces)
        ELSE Returned(links[j].is_game_over)

\* is_complete(self, category, white_to_move, initial_material_diff).
is_complete(i, cat, white_to_move, initial_material_diff, env) ==
    CompleteAt(CompletenessLink(i, cat), cat, white_to_move,
               initial_material_diff, env)

Categories == {"Mate", "Material"}

\* Starting material differences, in tenths: on the limit for Black, balanced,
\* decisive for White.
InitialDiffs == {-20, 0, 25}

\* What material_difference, material_count and evaluation.mate answer at a
\* link: material won by White with enough pieces and no mate, the same with
\* too few pieces, the same with a mate score, material won by Black, level.
Envs ==
    { [material_difference |-> 3,  material_count |-> 10, mate_is_none |-> TRUE],
      [material_difference |-> 3,  material_count |-> 5,  mate_is_none |-> TRUE],
      [material_difference |-> 3,  material_count |-> 10, mate_is_none |-> FALSE],
      [material_difference |-> -3, material_count |-> 10, mate_is_none |-> TRUE],
      [material_difference |-> 0,  material_count |-> 10, mate_is_none |-> TRUE] }

\* The chain is at rest: generate has not started, or it has returned.
AtRest == pc \in {"idle", "done"}

\* The owner reads the chain from its root, and the run ends.
CallMoveList ==
    /\ AtRest
    /\ ret' = [op |-> "move_list", out |-> move_list(1)]
    /\ pc' = "read"
    /\ UNCHANGED <<links, legal_moves, cur, multipv, searches>>

CallCategory ==
    /\ AtRest
    /\ ret' = [op |-> "category", out |-> Returned(category(1))]
    /\ pc' = "read"
    /\ UNCHANGED <<links, legal_moves, cur, multipv, searches>>

CallIsComplete ==
    /\ AtRest
    /\ \E cat \in Categories, white_to_move \in BOOLEAN,
          d \in InitialDiffs, env \in Envs :
          ret' = [op |-> "is_complete", category |-> cat,
                  white_to_move |-> white_to_move, initial_material_diff |-> d,
                  out |-> is_complete(1, cat, white_to_move, d, env)]
    /\ pc' = "read"
    /\ UNCHANGED <<links, legal_moves, cur, multipv, searches>>

Next ==
    \/ GenerateRoot
    \/ generate
    \/ evaluate_best
    \/ evaluate_candidate_moves
    \/ evaluate_candidate_moves_go
    \/ evaluate_candidate_moves_restore
    \/ Recurse
    \/ CallMoveList
    \/ CallCategory
    \/ CallIsComplete

Spec == Init /\ [][Next]_vars

\* ------------------------------------------------------------ the claims

Links == 1..Len(links)

\* The call returned v (it did not raise).
Returns(r, v) == ~r.raised /\ r.value = v

\* generate has been invoked on link j.
Invoked(j) == j # None /\ j <= cur

\* generate(depth) on the root has returned.
GenerateReturned == cur # None /\ pc \in {"done", "read"}

\* generate has passed line 65 on link i.
Decided(i) == i < cur \/ (i = cur /\ GenerateReturned)

HasBestMove(i) == ~links[i].best_move.is_none /\ links[i].best_move.bestmove # None

\* The k-th link after link i (None when the chain ends before it).
RECURSIVE Successor(_, _)
Successor(i, k) ==
    IF k = 0 \/ i = None THEN i ELSE Successor(links[i].next_position, k - 1)

\* The number of links from link i to the tail, both counted.
RECURSIVE ChainLength(_)
ChainLength(i) ==
    IF links[i].next_position = None THEN 1
    ELSE 1 + ChainLength(links[i].next_position)

TailLink(i) == Successor(i, ChainLength(i) - 1)

\* The number of steps from link i to link j of its chain.
Distance(i, j) == CHOOSE k \in 0..Len(links) : Successor(i, k) = j

\* The number of steps from link i to its first successor that is ambiguous
\* or whose position is game-over (the chain's length when there is none).
StepsToStop(i) ==
    LET stops == { k \in 1..(ChainLength(i) - 1) :
                     \/ ambiguous(Successor(i, k))
                     \/ links[Successor(i, k)].is_game_over }
    IN  IF stops = {} THEN ChainLength(i)
        ELSE CHOOSE k \in stops : \A m \in stops : k <= m

\* generate evaluated candidate moves on link i, and they are ambiguous.
AmbiguousCandidates(i) == links[i].candidate_moves # <<>> /\ ambiguous(i)

\* C1 (as claimed): a link of the player's whose candidate moves are
\* ambiguous is not extended, and move_list() on it returns the empty list.
C1_AmbiguousLinkGivesEmptyMoveList ==
    \A i \in Links :
        (pc = "done" /\ links[i].player_turn /\ AmbiguousCandidates(i)) =>
            /\ ~Invoked(links[i].next_position)
            /\ Returns(move_list(i), <<>>)

\* C1 (amended): a link of the player's whose candidate moves are ambiguous
\* is not extended (generate is never invoked on its successor), and
\* move_list() on it returns the one-element list of that link's own best
\* move.
C1_AmbiguousLinkGivesOwnBestMove ==
    \A i \in Links :
        (links[i].player_turn /\ AmbiguousCandidates(i)) =>
            /\ links[i].next_position # None
            /\ ~Invoked(links[i].next_position)
            /\ HasBestMove(i)
            /\ Returns(move_list(i), << Uci(links[i].best_move.bestmove) >>)

C1_Witness ==
    /\ GenerateReturned
    /\ links[1].player_turn
    /\ AmbiguousCandidates(1)
    /\ ret.op = "move_list"
    /\ Returns(ret.out, << Uci(links[1].best_move.bestmove) >>)

\* The start is decisive: outside the open interval (-2, +2).
DecisiveStart(d) == d >= Decisive \/ d <= -Decisive

\* The start is decisive for the side the puzzle is for.
DecisiveForMover(white_to_move, d) ==
    (white_to_move /\ d >= Decisive) \/ (~white_to_move /\ d <= -Decisive)

\* C2 (as claimed): with a decisive starting material difference,
\* is_complete('Material', ...) returns false on every generated chain, for
\* both sides and whatever is found at the reached link.
C2_DecisiveStartNeverComplete ==
    pc = "done" =>
        \A i \in Links, white_to_move \in BOOLEAN, d \in InitialDiffs, env \in Envs :
            ( /\ DecisiveStart(d)
              /\ ~links[CompletenessLink(i, "Material")].evaluation.is_none ) =>
                Returns(is_complete(i, "Material", white_to_move, d, env), FALSE)

\* C2 (amended): when the starting material difference is decisive in favour
\* of the side the puzzle is for (>= +2 with white_to_move, <= -2 without),
\* is_complete('Material', ...) returns false on every chain at rest, whatever
\* is found at the reached link.
C2_DecisiveForMoverNeverComplete ==
    AtRest =>
        \A i \in Links, white_to_move \in BOOLEAN, d \in InitialDiffs, env \in Envs :
            DecisiveForMover(white_to_move, d) =>
                Returns(is_complete(i, "Material", white_to_move, d, env), FALSE)

\* is_complete('Material') was called with a start decisive for the mover on
\* a chain that a balanced start completes.
C2_Witness ==
    /\ GenerateReturned
    /\ ret.op = "is_complete"
    /\ ret.category = "Material"
    /\ DecisiveForMover(ret.white_to_move, ret.initial_material_diff)
    /\ Returns(ret.out, FALSE)
    /\ \E env \in Envs :
          Returns(is_complete(1, "Material", ret.white_to_move, 0, env), TRUE)

\* C3: move_list() on a link of a generated chain returns the best moves of
\* that link and its successors in chain order, and none of a link at or
\* beyond the first successor that is ambiguous or game-over.
C3_MoveListIsTruncatedPrefix ==
    \A i \in Links :
        pc = "done" =>
            LET r == move_list(i)
            IN  /\ ~r.raised
                /\ Len(r.value) <= StepsToStop(i)
                /\ \A k \in 1..Len(r.value) :
                      /\ HasBestMove(Successor(i, k - 1))
                      /\ r.value[k] =
                            Uci(links[Successor(i, k - 1)].best_move.bestmove)

\* C4: move_list() on a link without a best move returns the empty list and
\* does not raise: generate never called, no legal moves, no engine move.
C4_NoBestMoveGivesEmptyList ==
    \A i \in Links :
        ~HasBestMove(i) => Returns(move_list(i), <<>>)

CandidatesAllowed(i) ==
    IF i <= Len(legal_moves) THEN Min(MaxMultiPV, legal_moves[i]) ELSE 0

\* C6: at every state during and after generate, every link holds at most
\* min(3, legal moves of its position) candidate moves, and the candidate
\* moves of a link are populated at most once.
C6_CandidatesBoundedAndSetOnce ==
    /\ [](\A i \in Links : Len(links[i].candidate_moves) <= CandidatesAllowed(i))
    /\ [][\A i \in Links :
            links[i].candidate_moves # <<>> =>
                links'[i].candidate_moves = links[i].candidate_moves]_vars

C6_Witness ==
    \E i \in Links :
        /\ i <= Len(legal_moves)
        /\ legal_moves[i] = 4
        /\ Len(links[i].candidate_moves) = 3
        /\ GenerateReturned

\* C7: player_turn alternates along the chain from the root's value, and the
\* successor of a link is the link for (its position, its best move).
C7_PlayerTurnAlternates ==
    /\ \A i \in Links :
          links[i].player_turn = IF i % 2 = 1 THEN links[1].player_turn
                                 ELSE ~links[1].player_turn
    /\ \A i \in Links :
          links[i].next_position # None =>
              LET nxt == links[links[i].next_position]
              IN  /\ links[i].next_position = i + 1
                  /\ nxt.player_turn = ~links[i].player_turn
                  /\ HasBestMove(i)
                  /\ nxt.initial_position = links[i].position
                  /\ nxt.initial_move = links[i].best_move.bestmove
                  /\ nxt.position =
                        Append(links[i].position, links[i].best_move.bestmove)

C7_Witness ==
    /\ GenerateReturned
    /\ Len(links) = 4
    /\ links[4].player_turn = ~links[1].player_turn
    /\ links[3].player_turn = links[1].player_turn

\* The rule of the claim for a link that has a successor.
RecursionRule(i) ==
    IF links[i].player_turn
    THEN /\ ~ambiguous(i)
         /\ ~links[i].is_game_over
         /\ ~links[links[i].next_position].is_game_over
    ELSE TRUE

\* C8: generate is invoked on the successor of a link that found a best move
\* exactly when the link is the opponent's, or it is the player's and is
\* unambiguous with neither its position nor its successor's game-over; it
\* is invoked on no successor before that is decided, and game_over() never
\* runs on a link without a successor (it would raise).
C8_RecursionRule ==
    /\ pc # "raised"
    /\ \A i \in Links :
          links[i].next_position # None =>
              IF Decided(i)
              THEN Invoked(links[i].next_position) <=> RecursionRule(i)
              ELSE ~Invoked(links[i].next_position)

\* A player's link that went deeper and a later one that did not.
C8_Witness ==
    /\ GenerateReturned
    /\ Len(links) = 4
    /\ links[1].player_turn
    /\ cur = 3
    /\ ~ambiguous(3)
    /\ links[4].is_game_over

\* C9 (as claimed): is_complete('Material') evaluates at a link an even
\* number of steps from the link it was called on.
C9_MaterialEvaluatedAtEvenDistance ==
    \A i \in Links :
        pc = "done" => Distance(i, CompletenessLink(i, "Material")) % 2 = 0

\* C9 (amended): is_complete('Material') advances one link at a time until
\* the current link has no link two steps ahead: it evaluates at the last
\* link but one of the chain, or at the link it was called on when that is
\* the tail; the distance covered is the chain's length less two, odd or even.
C9_MaterialEvaluatedAtLastButOne ==
    \A i \in Links :
        LET j == CompletenessLink(i, "Material")
        IN  IF links[i].next_position = None
            THEN j = i
            ELSE /\ j = Successor(i, ChainLength(i) - 2)
                 /\ links[j].next_position = TailLink(i)

\* is_complete('Material') was called on a chain of three links: it stops on
\* the second, one step from the root.
C9_Witness ==
    /\ GenerateReturned
    /\ Len(links) = 3
    /\ ret.op = "is_complete"
    /\ ret.category = "Material"
    /\ Distance(1, CompletenessLink(1, "Material")) = 1

\* C10: every search of evaluate_best runs with MultiPV = 1; every search of
\* evaluate_candidate_moves runs with MultiPV = min(3, legal moves), directly
\* after the best-move search of its own link; MultiPV is raised only while
\* evaluate_candidate_moves runs, and is 1 when generate has returned.
C10_MultiPVProtocol ==
    /\ \A k \in 1..Len(searches) :
          IF searches[k].by = "evaluate_best"
          THEN searches[k].multipv = 1
          ELSE /\ searches[k].multipv = Min(MaxMultiPV, legal_moves[searches[k].link])
               /\ k > 1
               /\ searches[k - 1].by = "evaluate_best"
               /\ searches[k - 1].link = searches[k].link
    /\ pc \notin {"multipv_search", "restore_multipv"} => multipv = 1
    /\ GenerateReturned => multipv = 1

C10_Witness ==
    /\ GenerateReturned
    /\ Len(searches) >= 5
    /\ \E k \in 1..Len(searches) : searches[k].multipv = 3
    /\ \E k \in 1..Len(searches) : searches[k].multipv = 2
====
